---------------------------- MODULE Spec2Model ----------------------------
(***************************************************************************)
(* A model of the AutoClean profiling and cleaning engine                  *)
(* (src/autoclean/cleaner.py, profiler.py, metrics.py, reporter.py and     *)
(* main.py).                                                               *)
(*                                                                         *)
(* A table (a pandas DataFrame) is a sequence of columns; a column is a    *)
(* record [name, dtype, cells]; a cell is a record [t, n, s]:              *)
(*   t = "na"   the missing sentinel (NaN / pd.NA / NaT)                   *)
(*   t = "num"  a number, n = the value in units of 1/Unit                 *)
(*   t = "str"  a text, s = its characters (a sequence of 1-char strings)  *)
(*   t = "bool" a boolean, n = 1 (True) or 0 (False)                       *)
(*   t = "ts"   a timestamp, s = its date "YYYY-MM-DD" (time is midnight)  *)
(* dtype is the pandas dtype family of the column: "object", "string",     *)
(* "float", "bool" (numpy, no missing), "boolean" (nullable),              *)
(* "datetime".                                                             *)
(***************************************************************************)
EXTENDS Integers, Sequences, FiniteSets, TLC

VARIABLES pc, run, nrows, input, df, actions, hist, strategy, err, profile,
          detected, profile_after, report

vars == <<pc, run, nrows, input, df, actions, hist, strategy, err, profile,
          detected, profile_after, report>>

(***************************************************************************)
(* Numbers.  Every number is an integer count of 1/Unit.  Unit = 2^10 * 25 *)
(* keeps exact the halves of a median, the quarters of an interpolated     *)
(* quartile, the halves of 1.5 * IQR and the hundredths of round(x, 2),    *)
(* over two runs of the cleaner on integer inputs.                         *)
(***************************************************************************)
Unit == 1024 * 25
Cent == Unit \div 100

Min2(a, b) == IF a <= b THEN a ELSE b
Max2(a, b) == IF a >= b THEN a ELSE b

\* round-half-even of the rational a / b (a >= 0, b > 0) to an integer:
\* Python's round() and numpy's round on an exactly representable value.
RoundDiv(a, b) ==
    LET q == a \div b
        r == a % b
    IN  IF 2 * r < b THEN q
        ELSE IF 2 * r > b THEN q + 1
        ELSE IF q % 2 = 0 THEN q ELSE q + 1

(***************************************************************************)
(* Cells.                                                                  *)
(***************************************************************************)
NA == [t |-> "na", n |-> 0, s |-> <<>>]
Num(x) == [t |-> "num", n |-> x, s |-> <<>>]
Str(x) == [t |-> "str", n |-> 0, s |-> x]
Bool(b) == [t |-> "bool", n |-> IF b THEN 1 ELSE 0, s |-> <<>>]
Ts(d) == [t |-> "ts", n |-> 0, s |-> d]

IsNA(c) == c.t = "na"
NotNA(c) == c.t # "na"

Col(name, dtype, cells) == [name |-> name, dtype |-> dtype, cells |-> cells]

\* sequence helpers
Count(seq, P(_)) == Cardinality({i \in 1..Len(seq) : P(seq[i])})

SeqMap(seq, F(_)) == [i \in 1..Len(seq) |-> F(seq[i])]

NaCount(cells) == Count(cells, IsNA)

(***************************************************************************)
(* Texts: str.strip(), str.lower(), the literals of the source.            *)
(***************************************************************************)
UpperChars == <<"A", "B", "C", "D", "E", "F", "G", "H", "I", "J", "K", "L", "M",
                "N", "O", "P", "Q", "R", "S", "T", "U", "V", "W", "X", "Y", "Z">>
LowerChars == <<"a", "b", "c", "d", "e", "f", "g", "h", "i", "j", "k", "l", "m",
                "n", "o", "p", "q", "r", "s", "t", "u", "v", "w", "x", "y", "z">>
Digits == <<"0", "1", "2", "3", "4", "5", "6", "7", "8", "9">>

LowerChar(c) ==
    IF \E i \in 1..26 : UpperChars[i] = c
    THEN LowerChars[CHOOSE i \in 1..26 : UpperChars[i] = c]
    ELSE c

\* str.lower()
Lower(txt) == [i \in 1..Len(txt) |-> LowerChar(txt[i])]

IsSpace(c) == c = " "

RECURSIVE LStrip(_)
LStrip(txt) ==
    IF txt # <<>> /\ IsSpace(Head(txt)) THEN LStrip(Tail(txt)) ELSE txt

RECURSIVE RStrip(_)
RStrip(txt) ==
    IF txt # <<>> /\ IsSpace(txt[Len(txt)])
    THEN RStrip(SubSeq(txt, 1, Len(txt) - 1))
    ELSE txt

\* str.strip()
Strip(txt) == RStrip(LStrip(txt))

IsDigit(c) == \E i \in 1..10 : Digits[i] = c
DigitVal(c) == (CHOOSE i \in 1..10 : Digits[i] = c) - 1

T_empty == <<>>
T_q == <<"?">>
T_na == <<"n", "a">>
T_n_a == <<"n", "/", "a">>
T_null == <<"n", "u", "l", "l">>
T_none == <<"n", "o", "n", "e">>
T_nan == <<"n", "a", "n">>
T_NA == <<"N", "A">>
T_N_A == <<"N", "/", "A">>
T_None == <<"N", "o", "n", "e">>
T_Unknown == <<"U", "n", "k", "n", "o", "w", "n">>
T_True == <<"T", "r", "u", "e">>
T_False == <<"F", "a", "l", "s", "e">>
T_midnight == <<" ", "0", "0", ":", "0", "0", ":", "0", "0">>

T_epoch == <<"1", "9", "7", "0", "-", "0", "1", "-", "0", "1">>

(***************************************************************************)
(* Conversions of pandas: astype("string"), to_numeric, to_datetime.       *)
(***************************************************************************)
RECURSIVE DigitsValue(_)
DigitsValue(txt) ==
    IF txt = <<>> THEN 0
    ELSE DigitsValue(SubSeq(txt, 1, Len(txt) - 1)) * 10 + DigitVal(txt[Len(txt)])

RECURSIVE IntDigits(_)
IntDigits(k) ==
    IF k < 10 THEN <<Digits[k + 1]>>
    ELSE IntDigits(k \div 10) \o <<Digits[(k % 10) + 1]>>

\* str(x) of one cell, as astype("string") renders it.  A float renders with
\* its fraction ("3.0"); only whole numbers are rendered here.
AsString(c) ==
    CASE c.t = "str" -> c
      [] c.t = "na" -> NA
      [] c.t = "ts" -> Str(c.s \o T_midnight)
      [] c.t = "bool" -> Str(IF c.n = 1 THEN T_True ELSE T_False)
      [] c.t = "num" -> Str(IntDigits(c.n \div Unit) \o <<".", "0">>)

\* the number a text parses to, or NA: pd.to_numeric(errors="coerce") on one
\* text.  The texts of the model hold unsigned whole numbers or no number.
ParseNumber(txt) ==
    LET s == Strip(txt)
    IN  IF s # <<>> /\ \A i \in 1..Len(s) : IsDigit(s[i])
        THEN Num(DigitsValue(s) * Unit)
        ELSE NA

\* pd.to_numeric(series, errors="coerce"), one cell
ToNumericCell(c) ==
    CASE c.t = "num" -> c
      [] c.t = "str" -> ParseNumber(c.s)
      [] c.t = "bool" -> Num(c.n * Unit)
      [] OTHER -> NA

_to_numeric(col) == Col(col.name, "float", SeqMap(col.cells, ToNumericCell))

IsDateText(s) ==
    /\ Len(s) >= 10
    /\ \A i \in {1, 2, 3, 4, 6, 7, 9, 10} : IsDigit(s[i])
    /\ s[5] = "-" /\ s[8] = "-"
    /\ \/ Len(s) = 10
       \/ SubSeq(s, 11, Len(s)) = T_midnight

\* pd.to_datetime(series, errors="coerce"), one cell: a date, alone or with
\* the midnight time str(Timestamp) prints, parses; other texts become NaT.
ToDatetimeCell(c) ==
    CASE c.t = "ts" -> c
      [] c.t = "str" -> IF IsDateText(c.s) THEN Ts(SubSeq(c.s, 1, 10)) ELSE NA
      [] c.t = "num" -> Ts(T_epoch)
      [] OTHER -> NA

is_numeric_dtype(dtype) == dtype \in {"float", "bool", "boolean"}
is_bool_dtype(dtype) == dtype \in {"bool", "boolean"}
is_datetime64_any_dtype(dtype) == dtype = "datetime"

\* the columns of a table
ColNames(t) == {t[i].name : i \in 1..Len(t)}
ColIndex(t, name) == CHOOSE i \in 1..Len(t) : t[i].name = name
HasCol(t, name) == name \in ColNames(t)
GetCol(t, name) == t[ColIndex(t, name)]
SetCol(t, col) == [t EXCEPT ![ColIndex(t, col.name)] = col]

\* one entry of the action log
Action(kind, col, detail, n1, n2) ==
    [kind |-> kind, col |-> col, detail |-> detail, n1 |-> n1, n2 |-> n2]

\* the state a cleaning stage works on: the table and the log
St(t, acts) == [df |-> t, actions |-> acts, err |-> "none"]

(***************************************************************************)
(* cleaner.py                                                              *)
(***************************************************************************)
BOOL_TRUE == {<<"t", "r", "u", "e">>, <<"t">>, <<"y", "e", "s">>, <<"y">>, <<"1">>}
BOOL_FALSE == {<<"f", "a", "l", "s", "e">>, <<"f">>, <<"n", "o">>, <<"n">>, <<"0">>}

ParseBoolCell(c) ==
    LET a == AsString(c)
        s == IF IsNA(a) THEN <<>> ELSE Lower(Strip(a.s))
    IN  IF IsNA(a) \/ s \in {T_empty, T_nan, T_none} THEN NA
        ELSE IF s \in BOOL_TRUE THEN Bool(TRUE)
        ELSE IF s \in BOOL_FALSE THEN Bool(FALSE)
        ELSE NA

_parse_bool(col) ==
    IF col.dtype = "bool"
    THEN Col(col.name, "boolean", col.cells)
    ELSE Col(col.name, "boolean", SeqMap(col.cells, ParseBoolCell))

_try_parse_datetime(st, name) ==
    IF ~HasCol(st.df, name) THEN st
    ELSE LET col == GetCol(st.df, name)
             new == Col(name, "datetime", SeqMap(col.cells, ToDatetimeCell))
         IN  [st EXCEPT !.df = SetCol(st.df, new),
                        !.actions = Append(st.actions,
                            Action("try_parse_datetime", name, "",
                                   NaCount(col.cells), NaCount(new.cells)))]

(***************************************************************************)
(* Statistics of a column's non-missing numbers.                           *)
(***************************************************************************)
RECURSIVE Insert(_, _)
Insert(x, sorted) ==
    IF sorted = <<>> THEN <<x>>
    ELSE IF x <= Head(sorted) THEN <<x>> \o sorted
    ELSE <<Head(sorted)>> \o Insert(x, Tail(sorted))

RECURSIVE Sort(_)
Sort(seq) == IF seq = <<>> THEN <<>> ELSE Insert(Head(seq), Sort(Tail(seq)))

RECURSIVE Sum(_)
Sum(seq) == IF seq = <<>> THEN 0 ELSE Head(seq) + Sum(Tail(seq))

\* series.dropna() as the sequence of its numbers
Values(cells) == SeqMap(SelectSeq(cells, NotNA), LAMBDA c : c.n)

\* Series.median(skipna=True); NA when there is no value
Median(cells) ==
    LET v == Sort(Values(cells))
        n == Len(v)
    IN  IF n = 0 THEN NA
        ELSE IF n % 2 = 1 THEN Num(v[(n + 1) \div 2])
        ELSE Num((v[n \div 2] + v[(n \div 2) + 1]) \div 2)

\* Series.mean(skipna=True), to the nearest 1/Unit
Mean(cells) ==
    LET v == Values(cells)
    IN  IF Len(v) = 0 THEN NA ELSE Num(RoundDiv(Sum(v), Len(v)))

\* Series.mode(dropna=True).iloc[0]: the smallest of the most frequent
\* values; NA when there is no value
Mode(cells) ==
    LET v == Values(cells)
        Freq(x) == Cardinality({i \in 1..Len(v) : v[i] = x})
        best == {v[i] : i \in 1..Len(v)}
        top == {x \in best : \A y \in best : Freq(y) <= Freq(x)}
    IN  IF Len(v) = 0 THEN NA
        ELSE Num(CHOOSE x \in top : \A y \in top : x <= y)

\* Series.quantile(k/4), linear interpolation, of sorted values v (k = 1, 3)
Quantile(v, k) ==
    LET pos == (Len(v) - 1) * k
        i == pos \div 4
        r == pos % 4
    IN  IF r = 0 THEN v[i + 1]
        ELSE v[i + 1] + (r * (v[i + 2] - v[i + 1])) \div 4

FillNa(cells, val) == SeqMap(cells, LAMBDA c : IF IsNA(c) THEN val ELSE c)

KnownStrategies == {"median", "mean", "mode"}

\* _fill_missing_numeric(df, col, strategy, actions); err = "ValueError" when
\* the call raises
_fill_missing_numeric(st, name, strat) ==
    IF ~HasCol(st.df, name) THEN st
    ELSE LET col == _to_numeric(GetCol(st.df, name))
             st1 == [st EXCEPT !.df = SetCol(st.df, col)]
             before == NaCount(col.cells)
             val == CASE strat = "median" -> Median(col.cells)
                      [] strat = "mean" -> Mean(col.cells)
                      [] strat = "mode" -> Mode(col.cells)
                      [] OTHER -> NA
             filled == Col(name, "float", FillNa(col.cells, val))
         IN  IF before = 0 THEN st1
             ELSE IF strat \notin KnownStrategies
                  THEN [st1 EXCEPT !.err = "ValueError"]
             ELSE IF IsNA(val) THEN st1
             ELSE [st1 EXCEPT !.df = SetCol(st1.df, filled),
                              !.actions = Append(st1.actions,
                                  Action("fill_missing", name, strat,
                                         before, NaCount(filled.cells)))]

\* _fill_missing_bool_mode(df, col, actions)
_fill_missing_bool_mode(st, name) ==
    IF ~HasCol(st.df, name) THEN st
    ELSE LET col == _parse_bool(GetCol(st.df, name))
             st1 == [st EXCEPT !.df = SetCol(st.df, col)]
             before == NaCount(col.cells)
             m == Mode(col.cells)
             fill_val == IF IsNA(m) THEN Bool(FALSE) ELSE Bool(m.n = 1)
             filled == Col(name, "boolean", FillNa(col.cells, fill_val))
         IN  IF before = 0 THEN st1
             ELSE [st1 EXCEPT !.df = SetCol(st1.df, filled),
                              !.actions = Append(st1.actions,
                                  Action("fill_missing", name,
                                         IF fill_val.n = 1 THEN "mode=True"
                                         ELSE "mode=False",
                                         before, NaCount(filled.cells)))]

\* a variant of the sentinel in lower case
UNKNOWN_lowercase == Str(Lower(T_Unknown))

\* the literal the categorical imputer fills with
UNKNOWN == Str(T_Unknown)

\* Series.fillna("Unknown"): a datetime column cannot hold the text and
\* becomes an object column of timestamps and texts
FillUnknownDtype(dtype) == IF dtype = "datetime" THEN "object" ELSE dtype

\* _fill_missing_categorical_unknown(df, col, actions)
_fill_missing_categorical_unknown(st, name) ==
    IF ~HasCol(st.df, name) THEN st
    ELSE LET col == GetCol(st.df, name)
             before == NaCount(col.cells)
             filled == Col(name, FillUnknownDtype(col.dtype),
                           FillNa(col.cells, UNKNOWN))
         IN  IF is_numeric_dtype(col.dtype) THEN st
             ELSE IF before = 0 THEN st
             ELSE [st EXCEPT !.df = SetCol(st.df, filled),
                             !.actions = Append(st.actions,
                                 Action("fill_missing", name, "categorical",
                                        before, NaCount(filled.cells)))]

\* a variant that clips at the upper fence only
ClipUpperOnly(c, lo, hi) == IF IsNA(c) THEN c ELSE Num(Min2(c.n, hi))

\* Series.clip(lower=lo, upper=hi), one cell
Clip(c, lo, hi) == IF IsNA(c) THEN c ELSE Num(Min2(Max2(c.n, lo), hi))

\* _cap_outliers_iqr(df, col, actions, k=1.5)
_cap_outliers_iqr(st, name) ==
    IF ~HasCol(st.df, name) THEN st
    ELSE LET col == GetCol(st.df, name)
             s == Sort(Values(col.cells))
             q1 == Quantile(s, 1)
             q3 == Quantile(s, 3)
             iqr == q3 - q1
             lo == q1 - (3 * iqr) \div 2
             hi == q3 + (3 * iqr) \div 2
             capped == SeqMap(col.cells, LAMBDA c : Clip(c, lo, hi))
             changed == Cardinality({i \in 1..Len(capped) :
                            NotNA(col.cells[i]) /\ col.cells[i] # capped[i]})
         IN  IF ~is_numeric_dtype(col.dtype) THEN st
             ELSE IF is_bool_dtype(col.dtype) THEN st
             ELSE IF s = <<>> THEN st
             ELSE IF iqr = 0 THEN st
             ELSE [st EXCEPT !.df = SetCol(st.df, Col(name, col.dtype, capped)),
                             !.actions = IF changed > 0
                                 THEN Append(st.actions,
                                     Action("cap_outliers", name, "", changed, 0))
                                 ELSE st.actions]

\* round(a * b, 2) and round(a / b, 2) of numbers in units of 1/Unit; every
\* number the cleaner holds is a multiple of 16/Unit
MulRound2(a, b) ==
    RoundDiv((a \div 16) * (b \div 16),
             ((Unit \div 16) * (Unit \div 16)) \div 100) * Cent

\* a variant that cuts the quotient to 2 decimals instead of rounding it
DivTruncate2(a, b) == ((100 * a) \div b) * Cent

DivRound2(a, b) == RoundDiv(100 * a, b) * Cent

PRICE == "price_per_unit"
QTY == "quantity"
TOTAL == "total_spent"
DATE == "transaction_date"
DISCOUNT == "discount_applied"

NumericSchema == <<PRICE, QTY, TOTAL>>

RECURSIVE CoerceNumericCols(_, _)
CoerceNumericCols(t, names) ==
    IF names = <<>> THEN t
    ELSE CoerceNumericCols(
             IF HasCol(t, Head(names))
             THEN SetCol(t, _to_numeric(GetCol(t, Head(names))))
             ELSE t,
             Tail(names))

\* _reconcile_price_qty_total(df, actions=actions).  The three passes run in
\* order on the table as the earlier passes left it; a pass fills only rows
\* whose other two cells are present, so no pass reads a cell an earlier pass
\* wrote and reading p, q, t before or after the earlier writes is the same.
_reconcile_price_qty_total(st) ==
    LET t0 == CoerceNumericCols(st.df, NumericSchema)
        p == GetCol(t0, PRICE).cells
        q == GetCol(t0, QTY).cells
        t == GetCol(t0, TOTAL).cells
        rows == 1..Len(p)
        mask1 == {i \in rows : NotNA(p[i]) /\ NotNA(q[i]) /\ IsNA(t[i])}
        t1 == [i \in rows |-> IF i \in mask1
                              THEN Num(MulRound2(p[i].n, q[i].n)) ELSE t[i]]
        mask2 == {i \in rows : NotNA(t1[i]) /\ NotNA(q[i]) /\ IsNA(p[i])
                               /\ q[i].n # 0}
        p2 == [i \in rows |-> IF i \in mask2
                              THEN Num(DivRound2(t1[i].n, q[i].n)) ELSE p[i]]
        mask3 == {i \in rows : NotNA(t1[i]) /\ NotNA(p2[i]) /\ IsNA(q[i])
                               /\ p2[i].n # 0}
        q3 == [i \in rows |-> IF i \in mask3
                              THEN Num(DivRound2(t1[i].n, p2[i].n)) ELSE q[i]]
        filled == Cardinality(mask1) + Cardinality(mask2) + Cardinality(mask3)
        out == SetCol(SetCol(SetCol(t0, Col(PRICE, "float", p2)),
                             Col(QTY, "float", q3)),
                      Col(TOTAL, "float", t1))
    IN  IF ~(\A i \in 1..3 : HasCol(st.df, NumericSchema[i]))
        THEN [st EXCEPT !.df = t0]
        ELSE [st EXCEPT !.df = out,
                        !.actions = IF filled > 0
                            THEN Append(st.actions,
                                Action("reconcile", "", "", filled, 0))
                            ELSE st.actions]

\* the markers clean_dataset replaces, matched as written
CleanerMarkers == {T_empty, T_NA, T_N_A, T_null, T_None, T_nan, T_q}

\* clean_dataset, stage 1, one cell of an object or string column
CleanNormalizeCell(c) ==
    LET a == AsString(c)
    IN  IF IsNA(a) THEN NA
        ELSE IF Strip(a.s) \in CleanerMarkers THEN NA
        ELSE Str(Strip(a.s))

CleanNormalizeCol(col) ==
    IF col.dtype \in {"object", "string"}
    THEN Col(col.name, "string", SeqMap(col.cells, CleanNormalizeCell))
    ELSE col

\* the column loops of clean_dataset: stages 5 to 8, columns in table order
RECURSIVE NumericLoop(_, _)
NumericLoop(st, i) ==
    IF i > Len(st.df) THEN st
    ELSE NumericLoop(
             IF is_numeric_dtype(st.df[i].dtype) /\ ~is_bool_dtype(st.df[i].dtype)
             THEN _fill_missing_numeric(st, st.df[i].name, "median")
             ELSE st,
             i + 1)

RECURSIVE BooleanLoop(_, _)
BooleanLoop(st, i) ==
    IF i > Len(st.df) THEN st
    ELSE BooleanLoop(
             IF is_bool_dtype(st.df[i].dtype)
             THEN _fill_missing_bool_mode(st, st.df[i].name)
             ELSE st,
             i + 1)

RECURSIVE CategoricalLoop(_, _)
CategoricalLoop(st, i) ==
    IF i > Len(st.df) THEN st
    ELSE CategoricalLoop(
             _fill_missing_categorical_unknown(st, st.df[i].name), i + 1)

RECURSIVE CapLoop(_, _)
CapLoop(st, i) ==
    IF i > Len(st.df) THEN st
    ELSE CapLoop(
             IF is_numeric_dtype(st.df[i].dtype)
             THEN _cap_outliers_iqr(st, st.df[i].name)
             ELSE st,
             i + 1)

\* the stages of clean_dataset
StageNormalize(st) ==
    [st EXCEPT !.df = SeqMap(st.df, CleanNormalizeCol),
               !.actions = Append(st.actions,
                   Action("normalize_strings", "", "", 0, 0))]

StageParse(st) ==
    LET st1 == _try_parse_datetime(st, DATE)
    IN  IF HasCol(st1.df, DISCOUNT)
        THEN [st1 EXCEPT !.df = SetCol(st1.df, _parse_bool(GetCol(st1.df, DISCOUNT))),
                         !.actions = Append(st1.actions,
                             Action("try_parse_bool", DISCOUNT, "", 0, 0))]
        ELSE st1

StageCoerce(st) == [st EXCEPT !.df = CoerceNumericCols(st.df, NumericSchema)]

StageReconcile(st) == _reconcile_price_qty_total(st)

\* a variant that caps the outliers before it fills the numeric columns
StageCapThenNumeric(st) == NumericLoop(CapLoop(st, 1), 1)

StageNumeric(st) == NumericLoop(st, 1)

StageBoolean(st) == BooleanLoop(st, 1)

StageCategorical(st) == CategoricalLoop(st, 1)

StageCap(st) == CapLoop(st, 1)

(***************************************************************************)
(* profiler.py                                                             *)
(***************************************************************************)
MISSING_MARKERS == {T_empty, T_q, T_na, T_n_a, T_null, T_none, T_nan}

\* _normalize_missing_tokens, one cell of an object or string column
ProfileNormalizeCell(c) ==
    LET a == AsString(c)
    IN  IF IsNA(a) THEN NA
        ELSE IF Lower(Strip(a.s)) \in MISSING_MARKERS THEN NA
        ELSE Str(Lower(Strip(a.s)))

_normalize_missing_tokens(t) ==
    SeqMap(t, LAMBDA col :
        IF col.dtype \in {"object", "string"}
        THEN Col(col.name, "string", SeqMap(col.cells, ProfileNormalizeCell))
        ELSE col)

RemoveChars(txt, chars) == SelectSeq(txt, LAMBDA c : c \notin chars)

\* str.replace(r"\[.*?\]", "", regex=True): every leftmost shortest
\* bracketed span is removed
RECURSIVE RemoveBracketed(_)
RemoveBracketed(txt) ==
    LET opens == {i \in 1..Len(txt) :
                     txt[i] = "[" /\ \E j \in (i + 1)..Len(txt) : txt[j] = "]"}
        i == CHOOSE x \in opens : \A y \in opens : x <= y
        closes == {j \in (i + 1)..Len(txt) : txt[j] = "]"}
        j == CHOOSE x \in closes : \A y \in closes : x <= y
    IN  IF opens = {} THEN txt
        ELSE SubSeq(txt, 1, i - 1) \o RemoveBracketed(SubSeq(txt, j + 1, Len(txt)))

\* the two footnote glyphs of the source (U+2020, U+2021), each one character
FootnoteGlyphs == {"dagger", "double-dagger"}

CleanNumericCell(c) ==
    LET a == AsString(c)
        s == Lower(Strip(RemoveChars(RemoveBracketed(RemoveChars(a.s, {"$", ","})),
                                     FootnoteGlyphs)))
    IN  IF IsNA(a) THEN NA
        ELSE IF s \in MISSING_MARKERS THEN NA
        ELSE ParseNumber(s)

\* clean_numeric_series(series)
clean_numeric_series(col) ==
    IF is_numeric_dtype(col.dtype) THEN col
    ELSE IF is_datetime64_any_dtype(col.dtype) \/ is_bool_dtype(col.dtype)
         THEN Col(col.name, "float", SeqMap(col.cells, LAMBDA c : NA))
    ELSE Col(col.name, "float", SeqMap(col.cells, CleanNumericCell))

\* Series.nunique(dropna=True)
NUnique(cells) == Cardinality({cells[i] : i \in {j \in 1..Len(cells) : NotNA(cells[j])}})

\* numeric_version.notna().mean() > 0.8: converted / rows > 4 / 5, false for
\* a column of no rows (the mean of nothing is NaN)
NumericThresholdNum == 4
NumericThresholdDen == 5

MostlyNumeric(numeric_version) ==
    /\ Len(numeric_version.cells) > 0
    /\ NumericThresholdDen * Count(numeric_version.cells, NotNA)
           > NumericThresholdNum * Len(numeric_version.cells)

\* unique_ratio > 0.9
IdRatioNum == 9
IdRatioDen == 10

infer_column_type(col) ==
    LET n == Len(col.cells)
        nunique == NUnique(col.cells)
    IN  IF is_datetime64_any_dtype(col.dtype) THEN "datetime"
        ELSE IF is_bool_dtype(col.dtype) THEN "binary"
        ELSE IF is_numeric_dtype(col.dtype) THEN "numeric"
        ELSE IF MostlyNumeric(clean_numeric_series(col)) THEN "numeric"
        ELSE IF n = 0 THEN "categorical"
        ELSE IF nunique = 2 THEN "binary"
        ELSE IF IdRatioDen * nunique > IdRatioNum * n THEN "id"
        ELSE "categorical"

\* a variant with fences at 3 * IQR
detect_outliers_wide(col) ==
    LET s == Sort(Values(col.cells))
        q1 == Quantile(s, 1)
        q3 == Quantile(s, 3)
        iqr == q3 - q1
        lower == q1 - 3 * iqr
        upper == q3 + 3 * iqr
    IN  IF ~is_numeric_dtype(col.dtype) THEN 0
        ELSE IF Len(s) < 3 THEN 0
        ELSE IF iqr = 0 THEN 0
        ELSE Cardinality({i \in 1..Len(s) : s[i] < lower \/ s[i] > upper})

\* detect_outliers(series)
detect_outliers(col) ==
    LET s == Sort(Values(col.cells))
        q1 == Quantile(s, 1)
        q3 == Quantile(s, 3)
        iqr == q3 - q1
        lower == q1 - (3 * iqr) \div 2
        upper == q3 + (3 * iqr) \div 2
    IN  IF ~is_numeric_dtype(col.dtype) THEN 0
        ELSE IF Len(s) < 3 THEN 0
        ELSE IF iqr = 0 THEN 0
        ELSE Cardinality({i \in 1..Len(s) : s[i] < lower \/ s[i] > upper})

\* the outliers profile_dataset counts for one column of type col_type
ColumnOutliers(col, col_type) ==
    LET numeric_col == clean_numeric_series(col)
    IN  IF col_type # "numeric" THEN 0
        ELSE IF Count(numeric_col.cells, NotNA) >= 3 THEN detect_outliers(numeric_col)
        ELSE 0

\* df.duplicated().sum(): the rows equal to an earlier row
DuplicateRows(t, rows) ==
    IF Len(t) = 0 THEN 0
    ELSE Cardinality({i \in 1..rows : \E j \in 1..(i - 1) :
                         \A c \in 1..Len(t) : t[c].cells[i] = t[c].cells[j]})

MissingCells(t) == Sum([c \in 1..Len(t) |-> NaCount(t[c].cells)])

\* the weights of the inline health score
MissingWeight == 40
DuplicateWeight == 20
OutlierWeight == 30
OutlierPenaltyCap == 30

\* round(x, 2) of the rational a / b, in hundredths
Round2(a, b) == RoundDiv(100 * a, b)

\* a variant that takes the weights of compute_health_score
HealthScoreStandaloneWeights(rows, total_cells, missing_cells, duplicate_rows, total_outliers) ==
    LET d == total_cells * rows
        total_penalty == missing_cells * 55 * rows + duplicate_rows * 30 * total_cells
                         + total_outliers * 15 * rows
    IN  IF rows = 0 \/ total_cells = 0 THEN NA
        ELSE Num(RoundDiv(100 * Max2(0, 100 * d - total_penalty), d))

\* a variant that scores the empty table 0.0
HealthScoreZeroWhenEmpty(rows, total_cells, missing_cells, duplicate_rows, total_outliers) ==
    LET d == total_cells * rows
        total_penalty == missing_cells * 40 * rows + duplicate_rows * 20 * total_cells
                         + Min2(total_outliers * 30 * rows, 30 * d)
    IN  IF rows = 0 \/ total_cells = 0 THEN Num(0)
        ELSE Num(RoundDiv(100 * Max2(0, 100 * d - total_penalty), d))

\* the data health score of profile_dataset, in hundredths: the penalties
\* are the fractions over the common denominator total_cells * rows
HealthScore(rows, total_cells, missing_cells, duplicate_rows, total_outliers) ==
    LET d == total_cells * rows
        missing_penalty == missing_cells * MissingWeight * rows
        duplicate_penalty == duplicate_rows * DuplicateWeight * total_cells
        outlier_penalty == Min2(total_outliers * OutlierWeight * rows,
                                OutlierPenaltyCap * d)
        total_penalty == missing_penalty + duplicate_penalty + outlier_penalty
    IN  IF rows = 0 \/ total_cells = 0 THEN NA
        ELSE Num(Round2(Max2(0, 100 * d - total_penalty), d))

\* a percent a / b * 100 rounded to 2 decimals, in hundredths; 0.0 for the
\* empty table
Percent(a, b, rows, total_cells) ==
    IF rows = 0 \/ total_cells = 0 THEN 0 ELSE Round2(100 * a, b)

\* profile_dataset(df), rows = len(df.index).  Percents and the score are
\* in hundredths.  The skew, entropy and per-column missing percent of the
\* column profiles read the table and influence no other field.
profile_dataset(t, rows) ==
    LET norm == _normalize_missing_tokens(t)
        cols == Len(norm)
        total_cells == rows * cols
        missing_cells == MissingCells(norm)
        duplicate_rows == DuplicateRows(norm, rows)
        types == [c \in 1..cols |-> infer_column_type(norm[c])]
        outliers == [c \in 1..cols |-> ColumnOutliers(norm[c], types[c])]
        total_outliers == Sum(outliers)
    IN  [defined |-> TRUE,
         rows |-> rows,
         columns |-> cols,
         missing_percent |-> Percent(missing_cells, total_cells, rows, total_cells),
         duplicate_percent |-> Percent(duplicate_rows, rows, rows, total_cells),
         outlier_percent |-> Percent(total_outliers, total_cells, rows, total_cells),
         data_health_score |->
             HealthScore(rows, total_cells, missing_cells, duplicate_rows, total_outliers),
         types |-> types,
         cardinality |-> [c \in 1..cols |-> NUnique(norm[c].cells)],
         outliers |-> outliers]

(***************************************************************************)
(* metrics.py                                                              *)
(***************************************************************************)
\* the NaN a fallback profile holds for a percent of an empty table
NaN == -1

\* max(lo, min(hi, x)); min(hi, NaN) is hi in Python, no comparison with NaN
\* being true
clamp(x, lo, hi) == IF x = NaN THEN Max2(lo, hi) ELSE Max2(lo, Min2(hi, x))

W_MISSING == 55
W_DUP == 30
W_OUTLIER == 15

\* compute_health_score with its default weights; percents and the score in
\* hundredths
compute_health_score(missing_percent, duplicate_percent, outlier_percent) ==
    LET m == clamp(missing_percent, 0, 10000)
        d == clamp(duplicate_percent, 0, 10000)
        o == clamp(outlier_percent, 0, 10000)
        penalty == W_MISSING * m + W_DUP * d + W_OUTLIER * o
    IN  RoundDiv(clamp(100 * 10000 - penalty, 0, 100 * 10000), 100)

(***************************************************************************)
(* reporter.py and main.py                                                 *)
(***************************************************************************)
\* _ensure_health_score(profile): a score that is no number (None) is
\* replaced by compute_health_score of the profile's percents
_ensure_health_score(p) ==
    IF p.data_health_score.t = "num" THEN p
    ELSE [p EXCEPT !.data_health_score =
              Num(compute_health_score(p.missing_percent, p.duplicate_percent,
                                       p.outlier_percent))]

\* clean_dataset(df): the eight stages in order
clean_dataset(t) ==
    StageCap(StageCategorical(StageBoolean(StageNumeric(
        StageReconcile(StageCoerce(StageParse(StageNormalize(St(t, <<>>)))))))))

\* the profile run_pipeline builds when profile_dataset raised: percents of
\* the table as loaded, NaN for a table of no rows or no columns (the mean of
\* an empty frame), no score
FallbackProfile(t, rows) ==
    LET cols == Len(t)
    IN  [defined |-> TRUE,
         rows |-> rows,
         columns |-> cols,
         missing_percent |->
             IF rows * cols = 0 THEN NaN ELSE Round2(100 * MissingCells(t), rows * cols),
         duplicate_percent |->
             IF rows * cols = 0 THEN NaN ELSE Round2(100 * DuplicateRows(t, rows), rows),
         outlier_percent |-> 0,
         data_health_score |-> NA,
         error |-> "profiling_failed"]

\* whether a profile came from the except branch of run_pipeline
ProfilingFailed(p) == "error" \in DOMAIN p

(***************************************************************************)
(* The input tables of the model.                                          *)
(***************************************************************************)
MaxCells == 8

T_date == <<"2", "0", "2", "3", "-", "0", "1", "-", "0", "5">>
T_foo == <<"f", "o", "o">>
T_Yes == <<"Y", "e", "s">>
T_no == <<"n", "o">>
T_Ab_spaced == <<" ", "A", "b", " ">>

T_1 == <<"1">>
T_dollar2 == <<"$", "2">>
T_a == <<"a">>
T_B == <<"B">>
T_NA_spaced == <<" ", "N", "A">>

AMOUNT == "amount"
CATEGORY == "category"
CODE == "code"
FLAG == "flag"
VALUE == "value"

\* the cells an input column of the cleaner draws from, and its dtype
CellChoices(name) ==
    CASE name = DATE -> {NA, Str(T_date), Str(T_foo)}
      [] name = DISCOUNT -> {NA, Str(T_Yes), Str(T_no)}
      [] name = PRICE -> {NA, Num(0), Num(3 * Unit)}
      [] name = QTY -> {NA, Num(0), Num(3 * Unit)}
      [] name = TOTAL -> {NA, Num(1 * Unit), Num(2 * Unit)}
      [] name = AMOUNT -> {NA, Num(0), Num(8 * Unit)}
      [] name = CATEGORY -> {NA, Str(T_Ab_spaced), Str(T_n_a)}
      [] name = CODE -> {NA, Str(T_1), Str(T_dollar2), Str(T_a), Str(T_B),
                         Str(T_NA_spaced)}
      [] name = FLAG -> {Bool(TRUE), Bool(FALSE)}
      [] name = VALUE -> {NA, Num(0), Num(1 * Unit), Num(2 * Unit), Num(8 * Unit)}

InputDtype(name) ==
    IF name \in {PRICE, QTY, TOTAL, AMOUNT, VALUE} THEN "float"
    ELSE IF name = FLAG THEN "bool"
    ELSE "object"

CleanShapes ==
    { <<AMOUNT>>, <<CATEGORY, AMOUNT>>, <<AMOUNT, CATEGORY>>,
      <<DATE>>, <<DISCOUNT, CATEGORY>>,
      <<PRICE, QTY, TOTAL>>,
      <<CATEGORY, DISCOUNT, AMOUNT, DATE>> }

MaxProfileCells == 5

ProfileShapes == { <<>>, <<CODE>>, <<AMOUNT>>, <<FLAG>>, <<AMOUNT, CODE>> }

MaxImputeRows == 3

MaxCapRows == 5

MaxReportCells == 4

CapShapes == { <<VALUE>>, <<FLAG>>, <<CATEGORY>> }

Strategies == KnownStrategies \cup {"max"}

RECURSIVE TablesOf(_, _)
TablesOf(shape, n) ==
    IF shape = <<>> THEN {<<>>}
    ELSE {<<Col(Head(shape), InputDtype(Head(shape)), cells)>> \o rest :
              cells \in [1..n -> CellChoices(Head(shape))],
              rest \in TablesOf(Tail(shape), n)}

NoProfile == [defined |-> FALSE]

(***************************************************************************)
(* Spec: clean_dataset, stage by stage, then once more on its own output.  *)
(***************************************************************************)
Runs == {1, 2}

Init ==
    /\ \E shape \in CleanShapes :
           \E n \in 1..(MaxCells \div Len(shape)) :
               /\ input \in TablesOf(shape, n)
               /\ nrows = n
    /\ df = input
    /\ hist = <<input>>
    /\ actions = <<>>
    /\ pc = "start"
    /\ run = 1
    /\ strategy = "median"
    /\ err = "none"
    /\ profile = NoProfile
    /\ detected = 0
    /\ profile_after = NoProfile
    /\ report = NoProfile

Normalize ==
    /\ pc = "start"
    /\ pc' = "normalized"
    /\ df' = StageNormalize(St(df, actions)).df
    /\ actions' = StageNormalize(St(df, actions)).actions
    /\ hist' = Append(hist, df')
    /\ UNCHANGED <<run, nrows, input, strategy, err, profile,
                 detected, profile_after, report>>

ParseSpecial ==
    /\ pc = "normalized"
    /\ pc' = "parsed"
    /\ df' = StageParse(St(df, actions)).df
    /\ actions' = StageParse(St(df, actions)).actions
    /\ hist' = Append(hist, df')
    /\ UNCHANGED <<run, nrows, input, strategy, err, profile,
                 detected, profile_after, report>>

CoerceNumeric ==
    /\ pc = "parsed"
    /\ pc' = "coerced"
    /\ df' = StageCoerce(St(df, actions)).df
    /\ actions' = StageCoerce(St(df, actions)).actions
    /\ hist' = Append(hist, df')
    /\ UNCHANGED <<run, nrows, input, strategy, err, profile,
                 detected, profile_after, report>>

Reconcile ==
    /\ pc = "coerced"
    /\ pc' = "reconciled"
    /\ df' = StageReconcile(St(df, actions)).df
    /\ actions' = StageReconcile(St(df, actions)).actions
    /\ hist' = Append(hist, df')
    /\ UNCHANGED <<run, nrows, input, strategy, err, profile,
                 detected, profile_after, report>>

FillNumeric ==
    /\ pc = "reconciled"
    /\ pc' = "numeric_filled"
    /\ df' = StageNumeric(St(df, actions)).df
    /\ actions' = StageNumeric(St(df, actions)).actions
    /\ hist' = Append(hist, df')
    /\ UNCHANGED <<run, nrows, input, strategy, err, profile,
                 detected, profile_after, report>>

FillBoolean ==
    /\ pc = "numeric_filled"
    /\ pc' = "boolean_filled"
    /\ df' = StageBoolean(St(df, actions)).df
    /\ actions' = StageBoolean(St(df, actions)).actions
    /\ hist' = Append(hist, df')
    /\ UNCHANGED <<run, nrows, input, strategy, err, profile,
                 detected, profile_after, report>>

FillCategorical ==
    /\ pc = "boolean_filled"
    /\ pc' = "categorical_filled"
    /\ df' = StageCategorical(St(df, actions)).df
    /\ actions' = StageCategorical(St(df, actions)).actions
    /\ hist' = Append(hist, df')
    /\ UNCHANGED <<run, nrows, input, strategy, err, profile,
                 detected, profile_after, report>>

CapOutliers ==
    /\ pc = "categorical_filled"
    /\ pc' = "done"
    /\ df' = StageCap(St(df, actions)).df
    /\ actions' = StageCap(St(df, actions)).actions
    /\ hist' = Append(hist, df')
    /\ UNCHANGED <<run, nrows, input, strategy, err, profile,
                 detected, profile_after, report>>

\* clean_dataset is called on the table it returned
Rerun ==
    /\ pc = "done"
    /\ run + 1 \in Runs
    /\ run' = run + 1
    /\ input' = df
    /\ hist' = <<df>>
    /\ actions' = <<>>
    /\ pc' = "start"
    /\ UNCHANGED <<nrows, df, strategy, err, profile,
                 detected, profile_after, report>>

Next ==
    \/ Normalize
    \/ ParseSpecial
    \/ CoerceNumeric
    \/ Reconcile
    \/ FillNumeric
    \/ FillBoolean
    \/ FillCategorical
    \/ CapOutliers
    \/ Rerun

Spec == Init /\ [][Next]_vars

(***************************************************************************)
(* SpecProfile: profile_dataset is called on a table.                      *)
(***************************************************************************)
InitProfile ==
    /\ \E shape \in ProfileShapes :
           \E n \in 0..(MaxProfileCells \div Max2(1, Len(shape))) :
               /\ input \in TablesOf(shape, n)
               /\ nrows = n
    /\ df = input
    /\ hist = <<>>
    /\ actions = <<>>
    /\ pc = "start"
    /\ run = 1
    /\ strategy = "median"
    /\ err = "none"
    /\ profile = NoProfile
    /\ detected = 0
    /\ profile_after = NoProfile
    /\ report = NoProfile

ProfileDataset ==
    /\ pc = "start"
    /\ pc' = "profiled"
    /\ profile' = profile_dataset(input, nrows)
    /\ UNCHANGED <<run, nrows, input, df, actions, hist, strategy, err,
                 detected, profile_after, report>>

NextProfile == ProfileDataset

SpecProfile == InitProfile /\ [][NextProfile]_vars

(***************************************************************************)
(* SpecImpute: _fill_missing_numeric is called on a column with a strategy *)
(* name.                                                                   *)
(***************************************************************************)
InitImpute ==
    /\ \E n \in 1..MaxImputeRows :
           /\ input \in TablesOf(<<AMOUNT>>, n)
           /\ nrows = n
    /\ strategy \in Strategies
    /\ df = input
    /\ hist = <<>>
    /\ actions = <<>>
    /\ pc = "start"
    /\ run = 1
    /\ err = "none"
    /\ profile = NoProfile
    /\ detected = 0
    /\ profile_after = NoProfile
    /\ report = NoProfile

FillMissingNumeric ==
    /\ pc = "start"
    /\ pc' = "called"
    /\ df' = _fill_missing_numeric(St(df, actions), AMOUNT, strategy).df
    /\ actions' = _fill_missing_numeric(St(df, actions), AMOUNT, strategy).actions
    /\ err' = _fill_missing_numeric(St(df, actions), AMOUNT, strategy).err
    /\ UNCHANGED <<run, nrows, input, hist, strategy, profile,
                 detected, profile_after, report>>

NextImpute == FillMissingNumeric

SpecImpute == InitImpute /\ [][NextImpute]_vars

(***************************************************************************)
(* SpecCap: _cap_outliers_iqr is called on a column, then detect_outliers  *)
(* on the same column as it was before the capping.                        *)
(***************************************************************************)
InitCap ==
    /\ \E shape \in CapShapes :
           \E n \in 1..MaxCapRows :
               /\ input \in TablesOf(shape, n)
               /\ nrows = n
    /\ df = input
    /\ hist = <<>>
    /\ actions = <<>>
    /\ pc = "start"
    /\ run = 1
    /\ strategy = "median"
    /\ err = "none"
    /\ profile = NoProfile
    /\ detected = 0
    /\ profile_after = NoProfile
    /\ report = NoProfile

CapOutliersIqr ==
    /\ pc = "start"
    /\ pc' = "capped"
    /\ df' = _cap_outliers_iqr(St(df, actions), df[1].name).df
    /\ actions' = _cap_outliers_iqr(St(df, actions), df[1].name).actions
    /\ UNCHANGED <<run, nrows, input, hist, strategy, err, profile,
                 detected, profile_after, report>>

\* detect_outliers reaches Series.quantile on a boolean series
QuantileOfBooleans(col) ==
    /\ is_bool_dtype(col.dtype)
    /\ Count(col.cells, NotNA) >= 3

\* The quantile of a boolean series either treats True and False as 1 and 0
\* or raises TypeError (numpy cannot subtract booleans), by the numpy and
\* pandas versions installed: both outcomes are kept.
DetectOutliers ==
    /\ pc = "capped"
    /\ pc' = "detected"
    /\ \/ /\ detected' = detect_outliers(input[1])
          /\ err' = err
       \/ /\ QuantileOfBooleans(input[1])
          /\ detected' = detected
          /\ err' = "TypeError"
    /\ UNCHANGED <<run, nrows, input, df, actions, hist, strategy, profile,
                 profile_after, report>>

NextCap == CapOutliersIqr \/ DetectOutliers

SpecCap == InitCap /\ [][NextCap]_vars

(***************************************************************************)
(* SpecReport: run_pipeline profiles the table, cleans it, profiles the    *)
(* cleaned table and hands both profiles to write_report.  profile_dataset *)
(* raises on cells the cell model does not hold (values pandas cannot hash *)
(* or compare), so each profiling step either returns or raises.           *)
(***************************************************************************)
InitReport ==
    /\ \E shape \in ProfileShapes :
           \E n \in 0..(MaxReportCells \div Max2(1, Len(shape))) :
               /\ input \in TablesOf(shape, n)
               /\ nrows = n
    /\ df = input
    /\ hist = <<>>
    /\ actions = <<>>
    /\ pc = "start"
    /\ run = 1
    /\ strategy = "median"
    /\ err = "none"
    /\ profile = NoProfile
    /\ detected = 0
    /\ profile_after = NoProfile
    /\ report = NoProfile

ProfileBefore ==
    /\ pc = "start"
    /\ pc' = "before"
    /\ profile' = profile_dataset(input, nrows)
    /\ UNCHANGED <<run, nrows, input, df, actions, hist, strategy, err,
                 detected, profile_after, report>>

ProfileBeforeFails ==
    /\ pc = "start"
    /\ pc' = "before"
    /\ profile' = FallbackProfile(input, nrows)
    /\ UNCHANGED <<run, nrows, input, df, actions, hist, strategy, err,
                 detected, profile_after, report>>

CleanDataset ==
    /\ pc = "before"
    /\ pc' = "cleaned"
    /\ df' = clean_dataset(input).df
    /\ actions' = clean_dataset(input).actions
    /\ UNCHANGED <<run, nrows, input, hist, strategy, err, profile,
                 detected, profile_after, report>>

ProfileAfter ==
    /\ pc = "cleaned"
    /\ pc' = "after"
    /\ profile_after' = profile_dataset(df, nrows)
    /\ UNCHANGED <<run, nrows, input, df, actions, hist, strategy, err, profile,
                 detected, report>>

ProfileAfterFails ==
    /\ pc = "cleaned"
    /\ pc' = "after"
    /\ profile_after' = FallbackProfile(df, nrows)
    /\ UNCHANGED <<run, nrows, input, df, actions, hist, strategy, err, profile,
                 detected, report>>

\* write_report(report_path, ..., profile_before, profile_after, actions)
WriteReport ==
    /\ pc = "after"
    /\ pc' = "reported"
    /\ report' = [before |-> _ensure_health_score(profile),
                  after |-> _ensure_health_score(profile_after),
                  actions |-> actions]
    /\ UNCHANGED <<run, nrows, input, df, actions, hist, strategy, err, profile,
                 detected, profile_after>>

NextReport ==
    \/ ProfileBefore
    \/ ProfileBeforeFails
    \/ CleanDataset
    \/ ProfileAfter
    \/ ProfileAfterFails
    \/ WriteReport

SpecReport == InitReport /\ [][NextReport]_vars

(***************************************************************************)
(* Properties of clean_dataset.                                            *)
(***************************************************************************)
Kinds(acts) == {acts[i].kind : i \in 1..Len(acts)}

\* C1: running clean_dataset on the table clean_dataset returned logs no
\* fill_missing, no cap_outliers and no reconcile entry.
C1_RerunLogsNoRepair ==
    run = 2 => Kinds(actions) \cap {"fill_missing", "cap_outliers", "reconcile"} = {}

Abs(x) == IF x < 0 THEN -x ELSE x

\* the tables of the current run: hist[k] is the table after stage k - 1
BeforeReconcile == hist[4]
BeforeNumeric == hist[5]
BeforeBoolean == hist[6]
BeforeCategorical == hist[7]

TextualCells(t) ==
    {<<i, j>> \in (1..Len(t)) \X (1..nrows) :
        t[i].dtype \in {"object", "string"} /\ t[i].cells[j].t = "str"}

\* what the specification says normalization makes of a text
SpecifiedNormalize(txt) ==
    IF Lower(Strip(txt)) \in {T_empty, T_q, T_na, T_n_a, T_null, T_none, T_nan}
    THEN NA
    ELSE Str(Strip(txt))

\* C3: stage 1 of clean_dataset and _normalize_missing_tokens both map a
\* text to the missing sentinel exactly when its trimmed, lower-cased form is
\* a missing marker, and otherwise to the trimmed text in its original case.
C3_NormalizeByMarkerSet ==
    pc = "normalized" =>
        \A ij \in TextualCells(input) :
            LET txt == input[ij[1]].cells[ij[2]].s
            IN  /\ df[ij[1]].cells[ij[2]] = SpecifiedNormalize(txt)
                /\ _normalize_missing_tokens(input)[ij[1]].cells[ij[2]]
                       = SpecifiedNormalize(txt)

\* x is the product a * b to the nearest hundredth.  The operands are
\* multiples of 16 and Cent = 16 * 16, so a * b / Unit is
\* (a / 16) * (b / 16) * Cent / Unit, kept within the integer range.
IsRound2Product(x, a, b) ==
    /\ x % Cent = 0
    /\ 2 * Abs((Unit \div Cent) * x - (a \div 16) * (b \div 16)) <= Unit

\* x is the quotient a / b to the nearest hundredth
IsRound2Quotient(x, a, b) ==
    /\ x % Cent = 0
    /\ 2 * Abs((x \div Cent) * (b \div 16) - 100 * (a \div 16)) <= b \div 16

HasTriple(t) == {PRICE, QTY, TOTAL} \subseteq ColNames(t)

ReconciledRow(i) ==
    LET p == GetCol(BeforeReconcile, PRICE).cells[i]
        q == GetCol(BeforeReconcile, QTY).cells[i]
        t == GetCol(BeforeReconcile, TOTAL).cells[i]
        p2 == GetCol(df, PRICE).cells[i]
        q2 == GetCol(df, QTY).cells[i]
        t2 == GetCol(df, TOTAL).cells[i]
    IN  IF NotNA(p) /\ NotNA(q) /\ IsNA(t)
        THEN p2 = p /\ q2 = q /\ NotNA(t2) /\ IsRound2Product(t2.n, p.n, q.n)
        ELSE IF IsNA(p) /\ NotNA(q) /\ NotNA(t) /\ q.n # 0
        THEN q2 = q /\ t2 = t /\ NotNA(p2) /\ IsRound2Quotient(p2.n, t.n, q.n)
        ELSE IF NotNA(p) /\ IsNA(q) /\ NotNA(t) /\ p.n # 0
        THEN p2 = p /\ t2 = t /\ NotNA(q2) /\ IsRound2Quotient(q2.n, t.n, p.n)
        ELSE p2 = p /\ q2 = q /\ t2 = t

\* C4: _reconcile_price_qty_total fills a row's only missing cell from the
\* other two (total = round(price * quantity, 2), price = round(total /
\* quantity, 2) when quantity # 0, quantity = round(total / price, 2) when
\* price # 0) and leaves every other row unchanged, raising nothing.
C4_ReconcileRows ==
    (pc = "reconciled" /\ HasTriple(df)) =>
        /\ err = "none"
        /\ \A i \in 1..nrows : ReconciledRow(i)

C4_Witness ==
    /\ pc = "reconciled" /\ HasTriple(df)
    /\ \E i \in 1..nrows :
           /\ IsNA(GetCol(BeforeReconcile, PRICE).cells[i])
           /\ GetCol(BeforeReconcile, QTY).cells[i] = Num(3 * Unit)
           /\ GetCol(BeforeReconcile, TOTAL).cells[i] = Num(2 * Unit)
           /\ GetCol(df, PRICE).cells[i] = Num(67 * Cent)
    /\ \E i \in 1..nrows :
           /\ IsNA(GetCol(BeforeReconcile, PRICE).cells[i])
           /\ GetCol(BeforeReconcile, QTY).cells[i] = Num(0)
           /\ NotNA(GetCol(BeforeReconcile, TOTAL).cells[i])
           /\ IsNA(GetCol(df, PRICE).cells[i])

\* the pipeline stage an entry of the log belongs to
StageRank(a) ==
    CASE a.kind = "normalize_strings" -> 1
      [] a.kind \in {"try_parse_datetime", "try_parse_bool"} -> 2
      [] a.kind = "reconcile" -> 4
      [] a.kind = "fill_missing" /\ a.detail \in {"mode=True", "mode=False"} -> 6
      [] a.kind = "fill_missing" /\ a.detail = "categorical" -> 7
      [] a.kind = "fill_missing" -> 5
      [] a.kind = "cap_outliers" -> 8

\* C5: the log of clean_dataset is in pipeline-stage order: the
\* normalization note first, then the parse notes, the reconcile entry, the
\* numeric fills, the boolean fills, the categorical fills, the caps.
C5_LogInStageOrder ==
    /\ actions # <<>> => StageRank(actions[1]) = 1
    /\ \A i, j \in 1..Len(actions) :
           i < j => /\ StageRank(actions[i]) <= StageRank(actions[j])
                    /\ StageRank(actions[j]) # 1

C5_Witness ==
    /\ pc = "done"
    /\ df[1].name = CATEGORY
    /\ {5, 7, 8} \subseteq {StageRank(actions[i]) : i \in 1..Len(actions)}

\* C10: in the table clean_dataset returns no boolean cell is missing (an
\* all-missing boolean column holds false), every cell missing in a
\* non-numeric column before stage 7 holds "Unknown", and a numeric column
\* has missing cells only if it had no value when numeric imputation ran,
\* and then it is unchanged and has no fill entry.
C10_NoMissingLeft ==
    pc = "done" =>
        \A i \in 1..Len(df) :
            /\ is_bool_dtype(df[i].dtype) =>
                   /\ NaCount(df[i].cells) = 0
                   /\ NaCount(BeforeBoolean[i].cells) = nrows =>
                          \A j \in 1..nrows : df[i].cells[j] = Bool(FALSE)
            /\ ~is_numeric_dtype(BeforeCategorical[i].dtype) =>
                   \A j \in 1..nrows :
                       IsNA(BeforeCategorical[i].cells[j]) =>
                           df[i].cells[j] = Str(T_Unknown)
            /\ (is_numeric_dtype(df[i].dtype) /\ ~is_bool_dtype(df[i].dtype)
                    /\ NaCount(df[i].cells) > 0) =>
                   /\ NaCount(BeforeNumeric[i].cells) = nrows
                   /\ df[i] = BeforeNumeric[i]
                   /\ \A k \in 1..Len(actions) :
                          ~(actions[k].kind = "fill_missing"
                              /\ actions[k].col = df[i].name)

C10_Witness ==
    /\ pc = "done"
    /\ run = 1
    /\ HasCol(df, DISCOUNT) /\ HasCol(df, AMOUNT) /\ HasCol(df, DATE)
    /\ NaCount(GetCol(input, DISCOUNT).cells) = nrows
    /\ NaCount(GetCol(df, AMOUNT).cells) = nrows
    /\ \E j \in 1..nrows : GetCol(df, DATE).cells[j] = Str(T_Unknown)
    /\ \E j \in 1..nrows : GetCol(df, CATEGORY).cells[j] = Str(T_Unknown)

(***************************************************************************)
(* Properties of _fill_missing_numeric.                                    *)
(***************************************************************************)
\* C6: every call of _fill_missing_numeric with a strategy other than
\* median, mean or mode raises the configuration error and records nothing.
C6_UnknownStrategyRaises ==
    (pc = "called" /\ strategy \notin {"median", "mean", "mode"}) =>
        /\ err = "ValueError"
        /\ actions = <<>>

(***************************************************************************)
(* Properties of profile_dataset and infer_column_type.                    *)
(***************************************************************************)
\* the table infer_column_type sees inside profile_dataset
Normalized == _normalize_missing_tokens(input)

\* C2: infer_column_type classifies every column that has exactly two
\* distinct non-missing values as binary, whatever its dtype and however
\* numeric its texts look.
C2_TwoValuedIsBinary ==
    pc = "profiled" =>
        \A i \in 1..Len(input) :
            NUnique(Normalized[i].cells) = 2 => profile.types[i] = "binary"

\* C9: a column not typed as timestamps, booleans or numbers is numeric
\* exactly when more than 0.8 of its non-missing cells convert to a number.
C9_NumericByNonMissingFraction ==
    pc = "profiled" =>
        \A i \in 1..Len(input) :
            LET col == Normalized[i]
                converted == Count(clean_numeric_series(col).cells, NotNA)
                present == Count(col.cells, NotNA)
            IN  (~is_numeric_dtype(col.dtype) /\ ~is_datetime64_any_dtype(col.dtype)) =>
                    (profile.types[i] = "numeric"
                        <=> (present > 0 /\ 5 * converted > 4 * present))

\* the counts the profile is computed from
TotalCells == nrows * Len(input)
MissingCount == MissingCells(Normalized)
DuplicateCount == DuplicateRows(Normalized, nrows)
OutlierCount == Sum(profile.outliers)

\* (100 - (0.40 missing% + 0.20 duplicate% + min(0.30 outlier%, 30))) with
\* the exact percents, floored at 0, times the denominator TotalCells * nrows
ExactScoreTimesDenominator ==
    Max2(0, 100 * TotalCells * nrows
            - (40 * MissingCount * nrows + 20 * DuplicateCount * TotalCells
               + Min2(30 * OutlierCount * nrows, 30 * TotalCells * nrows)))

PercentsInRange ==
    /\ profile.missing_percent \in 0..10000
    /\ profile.duplicate_percent \in 0..10000
    /\ profile.outlier_percent \in 0..10000
    /\ profile.data_health_score.t = "num"
    /\ profile.data_health_score.n \in 0..10000

\* percent inputs of compute_health_score, in hundredths, some out of range
PercentSamples == {-100, 0, 1, 3333, 5000, 10000, 20000}

StandaloneScoreInRange ==
    /\ \A m, d, o \in PercentSamples : compute_health_score(m, d, o) \in 0..10000
    /\ compute_health_score(profile.missing_percent, profile.duplicate_percent,
                            profile.outlier_percent) \in 0..10000

NonEmptyProfiled == pc = "profiled" /\ nrows >= 1 /\ Len(input) >= 1

\* C7 as amended: the percents and the score of a non-empty table are in
\* [0, 100], the score is max(0, 100 - (0.40 missing% + 0.20 duplicate% +
\* min(0.30 outlier%, 30))) of the exact percents rounded to 2 decimals, and
\* compute_health_score is in [0, 100].
C7_ScoreRoundedInRange ==
    NonEmptyProfiled =>
        /\ PercentsInRange
        /\ 2 * Abs(profile.data_health_score.n * TotalCells * nrows
                   - 100 * ExactScoreTimesDenominator) <= TotalCells * nrows
        /\ StandaloneScoreInRange

\* C7: the percents and the score of a non-empty table are in [0, 100], the
\* score equals max(0, 100 - (0.40 missing% + 0.20 duplicate% + min(0.30
\* outlier%, 30))), read with the exact percents or with the percents the
\* profile reports, and compute_health_score is in [0, 100].
C7_ScoreExactInRange ==
    NonEmptyProfiled =>
        /\ PercentsInRange
        /\ \/ profile.data_health_score.n * TotalCells * nrows
                  = 100 * ExactScoreTimesDenominator
           \/ 10 * profile.data_health_score.n
                  = Max2(0, 100000 - (4 * profile.missing_percent
                                      + 2 * profile.duplicate_percent
                                      + Min2(3 * profile.outlier_percent, 30000)))
        /\ StandaloneScoreInRange

C7_Witness ==
    /\ NonEmptyProfiled
    /\ profile.missing_percent > 0
    /\ profile.duplicate_percent > 0
    /\ profile.outlier_percent > 0
    /\ profile.data_health_score.n < 10000

\* C8: for a table of no rows or no columns profile_dataset returns, without
\* error, an undefined health score and percents of 0.0.
C8_EmptyTableProfile ==
    (pc = "profiled" /\ (nrows = 0 \/ Len(input) = 0)) =>
        /\ err = "none"
        /\ profile.defined
        /\ profile.data_health_score = NA
        /\ profile.missing_percent = 0
        /\ profile.duplicate_percent = 0
        /\ profile.outlier_percent = 0

C8_Witness ==
    /\ pc = "profiled"
    /\ nrows > 0
    /\ Len(input) = 0
    /\ profile.rows = nrows
    /\ profile.data_health_score = NA


(***************************************************************************)
(* Capping and detection of outliers (SpecCap).                            *)
(***************************************************************************)
\* the sorted non-missing values of a column, its quartiles by linear
\* interpolation and its fences Q1 - 1.5 * IQR and Q3 + 1.5 * IQR
SortedValues(col) == Sort(Values(col.cells))
Q1(col) == Quantile(SortedValues(col), 1)
Q3(col) == Quantile(SortedValues(col), 3)
IQR(col) == Q3(col) - Q1(col)
LowerFence(col) == Q1(col) - (3 * IQR(col)) \div 2
UpperFence(col) == Q3(col) + (3 * IQR(col)) \div 2

NumericNonBoolean(col) == is_numeric_dtype(col.dtype) /\ ~is_bool_dtype(col.dtype)

\* the cells that were not missing and that the capping changed
ChangedCells ==
    {i \in 1..nrows : NotNA(input[1].cells[i]) /\ df[1].cells[i] # input[1].cells[i]}

CappedCell(i) ==
    LET c == input[1].cells[i]
        lower == LowerFence(input[1])
        upper == UpperFence(input[1])
    IN  IF IsNA(c) THEN df[1].cells[i] = c
        ELSE /\ df[1].cells[i] = Num(Min2(Max2(c.n, lower), upper))
             /\ (lower <= c.n /\ c.n <= upper) => df[1].cells[i] = c

\* C11: on a numeric non-boolean column with a non-zero IQR _cap_outliers_iqr
\* replaces every non-missing value v by min(max(v, lower), upper), the fences
\* taken from the column before capping, leaves missing cells and values
\* inside the fences unchanged, and logs one cap_outliers entry with the
\* number of changed cells exactly when that number is positive; on a
\* boolean column it changes nothing and logs nothing.
C11_CapByFences ==
    pc \in {"capped", "detected"} =>
        /\ (/\ NumericNonBoolean(input[1])
            /\ SortedValues(input[1]) # <<>>
            /\ IQR(input[1]) # 0) =>
               /\ \A i \in 1..nrows : CappedCell(i)
               /\ df[1].name = input[1].name
               /\ actions = IF Cardinality(ChangedCells) > 0
                            THEN <<Action("cap_outliers", input[1].name, "",
                                          Cardinality(ChangedCells), 0)>>
                            ELSE <<>>
        /\ is_bool_dtype(input[1].dtype) => (df = input /\ actions = <<>>)

\* a value below the lower fence was raised to it, a missing cell and a value
\* inside the fences were kept, and the entry was logged
C11_Witness ==
    /\ pc = "capped"
    /\ NumericNonBoolean(input[1])
    /\ \E i \in 1..nrows : IsNA(input[1].cells[i])
    /\ \E i \in 1..nrows :
           /\ NotNA(input[1].cells[i])
           /\ input[1].cells[i].n < LowerFence(input[1])
           /\ df[1].cells[i] = Num(LowerFence(input[1]))
    /\ \E i \in 1..nrows : NotNA(input[1].cells[i]) /\ df[1].cells[i] = input[1].cells[i]
    /\ Len(actions) = 1
    /\ actions[1].n1 = Cardinality(ChangedCells)

C13_FallbackOnlyWhenDegraded ==
    pc = "reported" =>
        /\ ~ProfilingFailed(profile) =>
               report.before.data_health_score = profile.data_health_score
        /\ ~ProfilingFailed(profile_after) =>
               report.after.data_health_score = profile_after.data_health_score

=============================================================================
